---- MODULE Spec2Model ----
(***************************************************************************)
(* Central To-Do Planner (src/app.py): the credential store, the session,  *)
(* the task store, the recurrence expander and the score aggregation.      *)
(*                                                                         *)
(* Representation.  A calendar date in a DATE column (ISO text             *)
(* 'YYYY-MM-DD') is the triple <<y, m, d>>; a pandas Timestamp is a number *)
(* of clock ticks since 00:00 of 1 January of the first modelled year,     *)
(* TicksPerDay ticks a day, so that midnight is a multiple of TicksPerDay. *)
(* A NULL text column is the string NULL, a NULL date column is NULL_DATE. *)
(* Floating point percentages are kept exact as <<numerator, denominator>> *)
(* and the Efficiency Score is kept in hundredths.                         *)
(***************************************************************************)
EXTENDS Integers, Sequences, FiniteSets, TLC

VARIABLES
    users,      \* rows of table users, in insertion order
    session,    \* st.session_state: logged_in, username, role
    tasks,      \* rows of table tasks as the open connection sees them
    committed,  \* rows of table tasks that are committed
    uuids,      \* number of uuid4() draws so far
    msg,        \* what the last handler showed (st.success, st.error, exception)
    last,       \* the last UI event or call, with its inputs
    now,        \* the wall clock, in ticks
    metrics,    \* what the last compute_scores call returned
    prev        \* the call before it: its result and the clock it read

vars == <<users, session, tasks, committed, uuids, msg, last, now, metrics, prev>>

(***************************************************************************)
(* Bounds of the model.                                                    *)
(***************************************************************************)
TicksPerDay == 2
MaxUuid == 2
MaxStored == 4
MaxRows == 2
MaxTicks == 2

Years == 2023 .. 2025
MinYear == CHOOSE y \in Years : \A z \in Years : y <= z

NULL == "NULL"
NULL_DATE == <<>>
NoMetrics == [none |-> TRUE]

Min(a, b) == IF a < b THEN a ELSE b
Max(a, b) == IF a > b THEN a ELSE b
Abs(a) == IF a < 0 THEN -a ELSE a

(***************************************************************************)
(* Calendar arithmetic (datetime.date, pandas.Timestamp).                  *)
(***************************************************************************)
IsLeap(y) == (y % 4 = 0 /\ y % 100 # 0) \/ y % 400 = 0

DaysInMonth(y, m) ==
    IF m = 2 THEN (IF IsLeap(y) THEN 29 ELSE 28)
    ELSE IF m \in {4, 6, 9, 11} THEN 30 ELSE 31

RECURSIVE DaysBeforeMonth(_, _)
DaysBeforeMonth(y, m) ==
    IF m <= 1 THEN 0 ELSE DaysBeforeMonth(y, m - 1) + DaysInMonth(y, m - 1)

RECURSIVE DaysBeforeYear(_)
DaysBeforeYear(y) ==
    IF y <= MinYear THEN 0
    ELSE DaysBeforeYear(y - 1) + (IF IsLeap(y - 1) THEN 366 ELSE 365)

\* date -> days since 1 January of MinYear
toordinal(d) == DaysBeforeYear(d[1]) + DaysBeforeMonth(d[1], d[2]) + d[3] - 1

Dates ==
    {d \in Years \X (1 .. 12) \X (1 .. 31) : d[3] <= DaysInMonth(d[1], d[2])}

DateOfOrdinal == [n \in 0 .. (Cardinality(Dates) - 1) |-> CHOOSE d \in Dates : toordinal(d) = n]

\* days since 1 January of MinYear -> date
fromordinal(n) == DateOfOrdinal[n]

\* pd.to_datetime(<date or ISO text>): the Timestamp of that day's midnight
to_datetime(d) == toordinal(d) * TicksPerDay

\* Timestamp.date()
date_of(ts) == fromordinal(ts \div TicksPerDay)

\* date.isoformat(): the text stored in a DATE column
isoformat(d) == <<d[1], d[2], d[3]>>

\* ts + pd.Timedelta(days=n)
Timedelta_days(ts, n) == ts + n * TicksPerDay

\* ts + pd.DateOffset(months=n): same day of the month, or the month's last day
DateOffset_months(ts, n) ==
    LET d == date_of(ts)
        mi == d[2] - 1 + n
        y == d[1] + (mi \div 12)
        m == (mi % 12) + 1
        day == Min(d[3], DaysInMonth(y, m))
    IN  to_datetime(<<y, m, day>>) + (ts % TicksPerDay)

(***************************************************************************)
(* Hashing.  hashlib.sha256(password).hexdigest(), by its first 8 digits   *)
(* on the passwords of the model.                                          *)
(***************************************************************************)
Passwords == {"", "admin123", "pw1", "pw2"}

make_hash(password) ==
    CASE password = "admin123" -> "240be518"
      [] password = "pw1" -> "c592df4a"
      [] password = "pw2" -> "93915a0a"
      [] password = "" -> "e3b0c442"

\* check_hash comparing the password itself with the stored hash
check_hash_plain(password, hashed) == password = hashed

check_hash(password, hashed) == make_hash(password) = hashed

(***************************************************************************)
(* Table users: username UNIQUE, role IN ('admin','user').                 *)
(***************************************************************************)
Usernames == {"", "admin", "alice", "bob"}
Roles == {"user", "admin"}

SelectUser(tbl, username) ==
    SelectSeq(tbl, LAMBDA r : r.username = username)

\* c.fetchone() of SELECT ... FROM users WHERE username=?
FetchUser(tbl, username) ==
    LET rows == SelectUser(tbl, username)
    IN  IF rows = <<>> THEN [found |-> FALSE] ELSE [found |-> TRUE, row |-> rows[1]]

\* the INSERT on a table whose username column is not UNIQUE
InsertUser_not_unique(tbl, username, password, role) ==
    IF role \notin {"user", "admin"}
    THEN [raised |-> TRUE, users |-> tbl]
    ELSE [raised |-> FALSE,
          users |-> Append(tbl, [id |-> Len(tbl) + 1, username |-> username,
                                 password |-> password, role |-> role])]

\* INSERT INTO users (username, password, role): sqlite3.IntegrityError when a
\* constraint of the table fails, and then no row is written
InsertUser(tbl, username, password, role) ==
    IF SelectUser(tbl, username) # <<>> \/ role \notin Roles
    THEN [raised |-> TRUE, users |-> tbl]
    ELSE [raised |-> FALSE,
          users |-> Append(tbl, [id |-> Len(tbl) + 1, username |-> username,
                                 password |-> password, role |-> role])]

\* the bootstrap at import: one admin account when the table is empty
BootstrapUsers(tbl) ==
    IF Len(tbl) = 0
    THEN InsertUser(tbl, "admin", make_hash("admin123"), "admin").users
    ELSE tbl

LoggedOut == [logged_in |-> FALSE, username |-> NULL, role |-> NULL]

\* do_login: the role is read back from the table, "user" when no row is found
do_login(tbl, username) ==
    LET r == FetchUser(tbl, username)
    IN  [logged_in |-> TRUE, username |-> username,
         role |-> IF r.found THEN r.row.role ELSE "user"]

\* do_logout, then "logged_in" is set to False on the rerun
do_logout == LoggedOut

(***************************************************************************)
(* The auth page, shown while no user is logged in.                        *)
(***************************************************************************)
SignUp(new_user, new_pass, new_role) ==
    /\ ~session.logged_in
    /\ LET r == InsertUser(users, new_user, make_hash(new_pass), new_role)
       IN  /\ IF new_user = "" \/ new_pass = ""
              THEN users' = users /\ msg' = "Please enter a username and password."
              ELSE IF r.raised
              THEN users' = users /\ msg' = "Username already exists."
              ELSE users' = r.users /\ msg' = "account created"
    /\ last' = [op |-> "signup", username |-> new_user, password |-> new_pass,
                role |-> new_role]
    /\ UNCHANGED <<session, tasks, committed, uuids, now, metrics, prev>>

Login(username, password) ==
    /\ ~session.logged_in
    /\ LET r == FetchUser(users, username)
       IN  IF r.found /\ check_hash(password, r.row.password)
           THEN session' = do_login(users, username) /\ msg' = "Logged in"
           ELSE session' = session /\ msg' = "Invalid username or password."
    /\ last' = [op |-> "login", username |-> username, password |-> password]
    /\ UNCHANGED <<users, tasks, committed, uuids, now, metrics, prev>>

Logout ==
    /\ session.logged_in
    /\ session' = do_logout
    /\ msg' = ""
    /\ last' = [op |-> "logout"]
    /\ UNCHANGED <<users, tasks, committed, uuids, now, metrics, prev>>

(***************************************************************************)
(* Table tasks and the two INSERT statements of the program.               *)
(***************************************************************************)
\* the column list of both INSERT INTO tasks statements
TaskInsertColumns ==
    <<"task", "assigned_to", "given_by", "priority", "status", "start_date",
      "end_date", "progress", "comments", "recurrence", "recurrence_until",
      "series_id", "category", "tags", "estimated_hours">>

\* the number of ? in VALUES (...) of the seed INSERT and of the expander's INSERT
SeedInsertPlaceholders == 14
RecurInsertPlaceholders == 14

RECURSIVE MaxId(_)
MaxId(db) == IF db = <<>> THEN 0 ELSE Max(db[Len(db)].id, MaxId(SubSeq(db, 1, Len(db) - 1)))

\* the row an INSERT writes: the bound values by column position, the other
\* columns at their defaults
NewRow(id, params) ==
    [id |-> id,
     task |-> params[1], assigned_to |-> params[2], given_by |-> params[3],
     priority |-> params[4], status |-> params[5], start_date |-> params[6],
     end_date |-> params[7], progress |-> params[8], comments |-> params[9],
     admin_comments |-> NULL,
     recurrence |-> params[10], recurrence_until |-> params[11],
     series_id |-> params[12], category |-> params[13], tags |-> params[14],
     estimated_hours |-> params[15], actual_hours |-> 0]

\* c.execute("INSERT INTO tasks (<columns>) VALUES (<placeholders>)", params):
\* sqlite3 raises OperationalError ("N values for M columns") when the VALUES
\* list and the column list differ in length, ProgrammingError when the
\* bindings supplied do not match the placeholders; nothing is written then
execute_insert(db, placeholders, params) ==
    IF placeholders # Len(TaskInsertColumns) \/ Len(params) # placeholders
    THEN [raised |-> TRUE, tasks |-> db]
    ELSE [raised |-> FALSE, tasks |-> Append(db, NewRow(MaxId(db) + 1, params))]

\* str(uuid.uuid4()): the n-th draw
uuid4(n) == <<"uuid", n>>
NULL_ID == <<>>

\* next_start.date() > until.date()
date_gt(d1, d2) ==
    \/ d1[1] > d2[1]
    \/ d1[1] = d2[1] /\ d1[2] > d2[2]
    \/ d1[1] = d2[1] /\ d1[2] = d2[2] /\ d1[3] > d2[3]

(***************************************************************************)
(* auto_populate_recurrences.  a is the record of its arguments.           *)
(***************************************************************************)
\* a Monthly branch that leaves the Timestamp where it is
advance_monthly_stuck(recurrence, ts) ==
    IF recurrence = "Daily" THEN Timedelta_days(ts, 1)
    ELSE IF recurrence = "Weekly" THEN Timedelta_days(ts, 7)
    ELSE ts

\* one pass of the rule: the Timestamp advanced by the rule's step
advance(recurrence, ts) ==
    IF recurrence = "Daily" THEN Timedelta_days(ts, 1)
    ELSE IF recurrence = "Weekly" THEN Timedelta_days(ts, 7)
    ELSE DateOffset_months(ts, 1)

\* the values bound to the expander's INSERT
recur_params(a, next_start, next_end) ==
    <<a.task, a.assigned_to, a.given_by, a.priority, "Not Started",
      isoformat(date_of(next_start)), isoformat(date_of(next_end)), 0, a.comments,
      a.recurrence, a.recurrence_until, a.series_id, a.category, a.tags,
      a.estimated_hours>>

\* the while True loop, from the state (next_start, next_end) it enters a pass with
RECURSIVE expand_loop(_, _, _, _, _)
expand_loop(db, a, next_start, next_end, until) ==
    IF a.recurrence \notin {"Daily", "Weekly", "Monthly"}
    THEN [raised |-> FALSE, tasks |-> db]
    ELSE LET ns == advance(a.recurrence, next_start)
             ne == advance(a.recurrence, next_end)
         IN  IF date_gt(date_of(ns), date_of(until))
             THEN [raised |-> FALSE, tasks |-> db]
             ELSE LET r == execute_insert(db, RecurInsertPlaceholders,
                                          recur_params(a, ns, ne))
                  IN  IF r.raised THEN r
                      ELSE expand_loop(r.tasks, a, ns, ne, until)

\* db: the connection's rows, durable: the committed rows, at the call
auto_populate_recurrences(db, durable, a) ==
    IF a.recurrence = "None" \/ a.recurrence_until = NULL_DATE
    THEN [raised |-> FALSE, tasks |-> db, committed |-> durable]
    ELSE LET r == expand_loop(db, a, to_datetime(a.start_date),
                              to_datetime(a.end_date), to_datetime(a.recurrence_until))
         IN  IF r.raised
             THEN [raised |-> TRUE, tasks |-> r.tasks, committed |-> durable]
             ELSE [raised |-> FALSE, tasks |-> r.tasks, committed |-> r.tasks]

(***************************************************************************)
(* The add-task form of show_task_management (user dashboard).  f is the   *)
(* record of the submitted widgets.  Each script run opens its own         *)
(* connection, so a handler starts from the committed rows.                *)
(***************************************************************************)
join_tags(tags) == IF tags = <<>> THEN NULL ELSE tags[1]

seed_params(f, username, series_id) ==
    <<f.task, username, f.given_by, f.priority, f.status,
      isoformat(f.start_date), isoformat(f.end_date), f.progress, f.comments,
      f.recurrence,
      IF f.recurrence_until # NULL_DATE THEN isoformat(f.recurrence_until) ELSE NULL_DATE,
      series_id, f.category, join_tags(f.tags), f.estimated_hours>>

expander_args(f, username, series_id) ==
    [task |-> f.task, assigned_to |-> username, given_by |-> f.given_by,
     priority |-> f.priority, status |-> f.status, start_date |-> f.start_date,
     end_date |-> f.end_date, progress |-> f.progress, comments |-> f.comments,
     recurrence |-> f.recurrence, recurrence_until |-> isoformat(f.recurrence_until),
     series_id |-> series_id, category |-> f.category, tags |-> join_tags(f.tags),
     estimated_hours |-> f.estimated_hours]

\* what the handler leaves: [raised, tasks, committed]
add_task(durable, f, username, series_id) ==
    LET seed == execute_insert(durable, SeedInsertPlaceholders,
                               seed_params(f, username, series_id))
    IN  IF seed.raised
        THEN [raised |-> TRUE, tasks |-> seed.tasks, committed |-> durable]
        ELSE IF f.recurrence # "None" /\ f.recurrence_until # NULL_DATE
        THEN auto_populate_recurrences(seed.tasks, seed.tasks,
                                       expander_args(f, username, series_id))
        ELSE [raised |-> FALSE, tasks |-> seed.tasks, committed |-> seed.tasks]

SubmitTask(f) ==
    /\ session.logged_in /\ session.role = "user"
    /\ (f.task # "" /\ f.recurrence # "None") => uuids < MaxUuid
    /\ f.task # "" => Len(committed) < MaxStored
    /\ IF f.task = ""
       THEN /\ UNCHANGED <<tasks, committed, uuids>>
            /\ msg' = ""
       ELSE LET draws == IF f.recurrence # "None" THEN uuids + 1 ELSE uuids
                series_id == IF f.recurrence # "None" THEN uuid4(draws) ELSE NULL_ID
                r == add_task(committed, f, session.username, series_id)
            IN  /\ tasks' = r.tasks
                /\ committed' = r.committed
                /\ uuids' = draws
                /\ msg' = IF r.raised THEN "OperationalError"
                          ELSE "Task(s) Added Successfully!"
    /\ last' = [op |-> "add_task", form |-> f]
    /\ UNCHANGED <<users, session, now, metrics, prev>>

\* a direct call of auto_populate_recurrences(a) on the committed rows
CallExpander ==
    /\ last.op = "call_expander"
    /\ LET r == auto_populate_recurrences(committed, committed, last.args)
       IN  /\ tasks' = r.tasks
           /\ committed' = r.committed
           /\ msg' = IF r.raised THEN "OperationalError" ELSE "returned"
    /\ last' = [op |-> "expander", args |-> last.args]
    /\ UNCHANGED <<users, session, uuids, now, metrics, prev>>

(***************************************************************************)
(* auto_populate_recurrences statement by statement: last holds the call's *)
(* position pc and its locals next_start, next_end, until; passes counts   *)
(* the passes of the loop that got beyond the rule's step.                 *)
(***************************************************************************)
LoopAt(pc) == last.op = "loop" /\ last.pc = pc

\* the early return, else the three conversions before the loop
EnterExpander ==
    /\ last.op = "call_expander"
    /\ LET a == last.args
       IN  IF a.recurrence = "None" \/ a.recurrence_until = NULL_DATE
           THEN last' = [op |-> "loop", pc |-> "returned", args |-> a,
                         next_start |-> 0, next_end |-> 0, until |-> 0, passes |-> 0]
           ELSE last' = [op |-> "loop", pc |-> "rule", args |-> a,
                         next_start |-> to_datetime(a.start_date),
                         next_end |-> to_datetime(a.end_date),
                         until |-> to_datetime(a.recurrence_until), passes |-> 0]
    /\ UNCHANGED <<users, session, tasks, committed, uuids, msg, now, metrics, prev>>

\* the top of a pass: the rule's step on next_start and next_end, or the break
\* of an unrecognised rule
LoopRule ==
    /\ LoopAt("rule")
    /\ IF last.args.recurrence \in {"Daily", "Weekly", "Monthly"}
       THEN last' = [last EXCEPT !.pc = "cutoff",
                                 !.next_start = advance(last.args.recurrence, @),
                                 !.next_end = advance(last.args.recurrence, @),
                                 !.passes = @ + 1]
       ELSE last' = [last EXCEPT !.pc = "commit"]
    /\ UNCHANGED <<users, session, tasks, committed, uuids, msg, now, metrics, prev>>

\* if next_start.date() > until.date(): break
LoopCutoff ==
    /\ LoopAt("cutoff")
    /\ last' = [last EXCEPT !.pc = IF date_gt(date_of(last.next_start), date_of(last.until))
                                   THEN "commit" ELSE "insert"]
    /\ UNCHANGED <<users, session, tasks, committed, uuids, msg, now, metrics, prev>>

\* the INSERT of the pass, on the connection; an exception leaves the function
LoopInsert ==
    /\ LoopAt("insert")
    /\ LET r == execute_insert(tasks, RecurInsertPlaceholders,
                               recur_params(last.args, last.next_start, last.next_end))
       IN  /\ tasks' = r.tasks
           /\ last' = [last EXCEPT !.pc = IF r.raised THEN "raised" ELSE "rule"]
           /\ msg' = IF r.raised THEN "OperationalError" ELSE msg
    /\ UNCHANGED <<users, session, committed, uuids, now, metrics, prev>>

\* conn.commit() after the loop
LoopCommit ==
    /\ LoopAt("commit")
    /\ committed' = tasks
    /\ last' = [last EXCEPT !.pc = "returned"]
    /\ msg' = "returned"
    /\ UNCHANGED <<users, session, tasks, uuids, now, metrics, prev>>

(***************************************************************************)
(* compute_scores.  df is the sequence of rows the SELECT returns, today   *)
(* the Timestamp pd.to_datetime("today") returns: the current local time,  *)
(* time of day included.                                                   *)
(***************************************************************************)
select_tasks(db, username) ==
    IF username \notin {NULL, ""}
    THEN SelectSeq(db, LAMBDA r : r.assigned_to = username)
    ELSE db

completed_count(df) == Len(SelectSeq(df, LAMBDA r : r.status = "Completed"))

\* an overdue count that forgets the status
overdue_count_any_status(df, today) ==
    Len(SelectSeq(df, LAMBDA r : to_datetime(r.end_date) < today))

overdue_count(df, today) ==
    Len(SelectSeq(df, LAMBDA r : r.status # "Completed"
                                 /\ to_datetime(r.end_date) < today))

high_priority_count(df) == Len(SelectSeq(df, LAMBDA r : r.priority = "High"))

\* on_time counted over all the tasks instead of the completed ones
on_time_count_all(df) ==
    Len(SelectSeq(df, LAMBDA r : to_datetime(r.end_date) >= to_datetime(r.start_date)))

on_time_count(df) ==
    LET completed_tasks == SelectSeq(df, LAMBDA r : r.status = "Completed")
    IN  Len(SelectSeq(completed_tasks,
                      LAMBDA r : to_datetime(r.end_date) >= to_datetime(r.start_date)))

\* the first row's progress taken for every row's
progress_sum_first(df) == IF df = <<>> THEN 0 ELSE df[1].progress * Len(df)

RECURSIVE progress_sum(_)
progress_sum(df) ==
    IF df = <<>> THEN 0 ELSE df[1].progress + progress_sum(Tail(df))

\* round(num / den, 0) for den > 0: to the nearest integer, a tie to the even one
round_half_even(num, den) ==
    LET q == num \div den
        rem == num - q * den
    IN  IF 2 * rem < den THEN q
        ELSE IF 2 * rem > den THEN q + 1
        ELSE IF q % 2 = 0 THEN q ELSE q + 1

\* round(0.4*completion_rate + 0.25*ontime_rate + 0.2*avg_progress
\*       - 0.15*overdue_rate, 2), in hundredths
weighted_score(total, completed, on_time, overdue, progress_total) ==
    round_half_even(40 * (completed * 100) + 25 * (on_time * 100)
                    + 20 * progress_total - 15 * (overdue * 100), total)

\* the score returned as rounded, without the floor
floor_score_none(score) == score

\* max(0, score)
floor_score(score) == Max(0, score)

compute_scores(db, username, today) ==
    LET df_user == select_tasks(db, username)
        total == Len(df_user)
        completed == completed_count(df_user)
        overdue == overdue_count(df_user, today)
        on_time == on_time_count(df_user)
        progress_total == progress_sum(df_user)
    IN  IF df_user = <<>>
        THEN NoMetrics
        ELSE [none |-> FALSE,
              total |-> total,
              completed |-> completed,
              overdue |-> overdue,
              high_priority |-> high_priority_count(df_user),
              completion_rate |-> <<completed * 100, total>>,
              ontime_rate |-> <<on_time * 100, total>>,
              overdue_rate |-> <<overdue * 100, total>>,
              avg_progress |-> <<progress_total, total>>,
              score |-> floor_score(weighted_score(total, completed, on_time,
                                                   overdue, progress_total))]

NotCalled == [called |-> FALSE]

\* one call compute_scores(username) on the committed rows, at the current time
ComputeScores(username) ==
    /\ prev' = metrics
    /\ metrics' = [called |-> TRUE, username |-> username, now |-> now,
                   result |-> compute_scores(committed, username, now)]
    /\ last' = [op |-> "compute_scores", username |-> username, after |-> last.op]
    /\ UNCHANGED <<users, session, tasks, committed, uuids, msg, now>>

\* the same rows in another order: rows i and i+1 change places
Reorder(i) ==
    /\ i < Len(committed) /\ i <= MaxRows
    /\ committed' = [committed EXCEPT ![i] = committed[i + 1], ![i + 1] = committed[i]]
    /\ tasks' = committed'
    /\ last' = [op |-> "reorder"]
    /\ UNCHANGED <<users, session, uuids, msg, now, metrics, prev>>

(***************************************************************************)
(* The user dashboard: the metrics of the session's user, the task cards   *)
(* of show_task_management and the Delete button of a card.                *)
(***************************************************************************)
\* a listing without its WHERE clause
read_tasks_all(db, username) == db

\* pd.read_sql("SELECT * FROM tasks WHERE assigned_to=?", (session username,))
read_tasks(db, username) == SelectSeq(db, LAMBDA r : r.assigned_to = username)

\* c.execute("DELETE FROM tasks WHERE id=?", (row["id"],))
delete_task(db, id) == SelectSeq(db, LAMBDA r : r.id # id)

\* show_user_dashboard computes the metrics of the logged-in user
ShowUserDashboard ==
    /\ session.logged_in /\ session.role = "user"
    /\ ComputeScores(session.username)

\* the Delete button of the i-th card listed for the session's user; the
\* DELETE is committed at once
DeleteTask(i) ==
    /\ session.logged_in /\ session.role = "user"
    /\ LET df == read_tasks(committed, session.username)
       IN  /\ i \in 1 .. Len(df)
           /\ committed' = delete_task(tasks, df[i].id)
           /\ tasks' = committed'
           /\ last' = [op |-> "delete_task", id |-> df[i].id]
    /\ msg' = "Task deleted!"
    /\ UNCHANGED <<users, session, uuids, now, metrics, prev>>

(***************************************************************************)
(* The admin's note on a task.  app.py keeps the column admin_comments and *)
(* shows it on the cards, but the body of show_admin_dashboard is elided   *)
(* there; the two updates follow the specification: the note of one task,  *)
(* or of every task of its series.                                         *)
(***************************************************************************)
\* a series-wide update without its WHERE clause
update_series_note_all(db, series_id, note) ==
    [j \in 1 .. Len(db) |-> [db[j] EXCEPT !.admin_comments = note]]

\* UPDATE tasks SET admin_comments=? WHERE id=?
update_admin_note(db, id, note) ==
    [j \in 1 .. Len(db) |->
        IF db[j].id = id THEN [db[j] EXCEPT !.admin_comments = note] ELSE db[j]]

\* UPDATE tasks SET admin_comments=? WHERE series_id=?
update_series_note(db, series_id, note) ==
    [j \in 1 .. Len(db) |->
        IF db[j].series_id = series_id
        THEN [db[j] EXCEPT !.admin_comments = note]
        ELSE db[j]]

AdminNotes == {"ok", "redo"}

\* the admin saves a note on the i-th task, or on the whole series of a task
\* that belongs to one
UpdateAdminNote(i, note, whole_series) ==
    /\ session.logged_in /\ session.role = "admin"
    /\ i \in 1 .. Len(committed)
    /\ whole_series => committed[i].series_id # NULL_ID
    /\ committed' = IF whole_series
                    THEN update_series_note(tasks, committed[i].series_id, note)
                    ELSE update_admin_note(tasks, committed[i].id, note)
    /\ tasks' = committed'
    /\ last' = [op |-> "admin_note", id |-> committed[i].id, note |-> note,
                whole_series |-> whole_series]
    /\ msg' = ""
    /\ UNCHANGED <<users, session, uuids, now, metrics, prev>>

(***************************************************************************)
(* Inputs of the model.                                                    *)
(***************************************************************************)
Today0 == <<2024, 1, 10>>
Clock0 == to_datetime(Today0)

\* time passes
Tick ==
    /\ now < Clock0 + MaxTicks
    /\ now' = now + 1
    /\ last' = [op |-> "tick"]
    /\ UNCHANGED <<users, session, tasks, committed, uuids, msg, metrics, prev>>

Yesterday0 == date_of(Clock0 - TicksPerDay)
Tomorrow0 == date_of(Clock0 + TicksPerDay)

ScoreRow(id, who, priority, status, start_date, end_date, progress) ==
    NewRow(id, <<"task", who, "boss", priority, status, isoformat(start_date),
                 isoformat(end_date), progress, "", "None", NULL_DATE, NULL_ID,
                 "Work", NULL, 1>>)

\* the kinds of stored rows the scores are computed on
ScoreRowKinds ==
    <<[who |-> "alice", priority |-> "High", status |-> "Completed",
       start_date |-> Today0, end_date |-> Tomorrow0, progress |-> 100],
      [who |-> "alice", priority |-> "Low", status |-> "Completed",
       start_date |-> Today0, end_date |-> Yesterday0, progress |-> 50],
      [who |-> "alice", priority |-> "Low", status |-> "Not Started",
       start_date |-> Yesterday0, end_date |-> Yesterday0, progress |-> 0],
      [who |-> "alice", priority |-> "Medium", status |-> "In Progress",
       start_date |-> Today0, end_date |-> Today0, progress |-> 50],
      [who |-> "alice", priority |-> "High", status |-> "Not Started",
       start_date |-> Today0, end_date |-> Tomorrow0, progress |-> 0],
      [who |-> "bob", priority |-> "Low", status |-> "Not Started",
       start_date |-> Yesterday0, end_date |-> Yesterday0, progress |-> 0]>>

\* the table holding the rows of the kinds ks[1], ks[2], ..., in that order
TableOf(ks) ==
    [i \in 1 .. Len(ks) |->
        LET k == ScoreRowKinds[ks[i]]
        IN  ScoreRow(i, k.who, k.priority, k.status, k.start_date, k.end_date,
                     k.progress)]

\* 10 tasks of one user: 6 completed of which 5 on time, 2 overdue, progress 55
\* on average
Scenario2 == TableOf(<<2, 3, 5, 1, 1, 1, 1, 1, 3, 5>>)

ScoreTables ==
    {TableOf(ks) : ks \in UNION {[1 .. n -> 1 .. Len(ScoreRowKinds)] : n \in 0 .. MaxRows}}
        \cup {Scenario2}

\* what the add-task form can submit: the end date not before the start date,
\* a "Repeat Until" date exactly when a recurrence is selected
Forms ==
    {f \in [task : {"", "report"}, given_by : {"boss"}, category : {"Work"},
            tags : {<<>>, <<"urgent">>}, priority : {"High"},
            status : {"Not Started", "Completed"},
            start_date : {<<2024, 1, 1>>},
            end_date : {<<2024, 1, 2>>},
            progress : {50}, estimated_hours : {1}, comments : {""},
            recurrence : {"None", "Daily", "Weekly", "Monthly"},
            recurrence_until : {NULL_DATE, <<2023, 12, 31>>, <<2024, 1, 22>>}] :
        (f.recurrence = "None") <=> (f.recurrence_until = NULL_DATE)}

\* the arguments of a direct call of auto_populate_recurrences
ExpanderArgs ==
    {a \in [task : {"report"}, assigned_to : {"alice"}, given_by : {"boss"},
            priority : {"High"}, status : {"Not Started", "Completed"},
            start_date : {<<2024, 1, 1>>, <<2024, 1, 31>>},
            end_date : {<<2024, 1, 1>>, <<2024, 1, 2>>, <<2024, 1, 31>>, <<2024, 2, 1>>},
            progress : {0, 50}, comments : {"weekly report"},
            recurrence : {"None", "Daily", "Weekly", "Monthly", "Yearly"},
            recurrence_until : {NULL_DATE, <<2023, 12, 31>>, <<2024, 1, 3>>,
                                <<2024, 1, 22>>, <<2024, 3, 31>>},
            series_id : {uuid4(1)}, category : {"Work"}, tags : {NULL},
            estimated_hours : {1}] :
        /\ toordinal(a.end_date) - toordinal(a.start_date) \in {0, 1}
        /\ a.recurrence_until = <<2024, 3, 31>> => a.recurrence = "Monthly"}

(***************************************************************************)
(* Specifications.                                                         *)
(***************************************************************************)
\* the application after import on a fresh database, nobody logged in
Init ==
    /\ users = BootstrapUsers(<<>>)
    /\ session = LoggedOut
    /\ tasks = <<>>
    /\ committed = <<>>
    /\ uuids = 0
    /\ msg = ""
    /\ last = [op |-> "start"]
    /\ now = Clock0
    /\ metrics = NotCalled
    /\ prev = NotCalled

Next ==
    \/ \E u \in Usernames, p \in Passwords, r \in Roles : SignUp(u, p, r)
    \/ \E u \in Usernames, p \in Passwords : Login(u, p)
    \/ Logout
    \/ \E f \in Forms : SubmitTask(f)

Spec == Init /\ [][Next]_vars

\* auto_populate_recurrences called on its own
InitExpand ==
    /\ users = BootstrapUsers(<<>>)
    /\ session = LoggedOut
    /\ tasks = <<>>
    /\ committed = <<>>
    /\ uuids = 1
    /\ msg = ""
    /\ last \in {[op |-> "call_expander", args |-> a] : a \in ExpanderArgs}
    /\ now = Clock0
    /\ metrics = NotCalled
    /\ prev = NotCalled

NextExpand == CallExpander

SpecExpand == InitExpand /\ [][NextExpand]_vars

\* auto_populate_recurrences called on its own, statement by statement; the
\* interpreter runs a started call on
NextLoop ==
    \/ EnterExpander
    \/ LoopRule
    \/ LoopCutoff
    \/ LoopInsert
    \/ LoopCommit

SpecLoop == InitExpand /\ [][NextLoop]_vars

FairSpecLoop == SpecLoop /\ WF_vars(NextLoop)

\* compute_scores on a stored table, while time passes
InitScores ==
    /\ users = BootstrapUsers(<<>>)
    /\ session = LoggedOut
    /\ committed \in ScoreTables
    /\ tasks = committed
    /\ uuids = 0
    /\ msg = ""
    /\ last = [op |-> "start"]
    /\ now \in {Clock0, Clock0 + 1}
    /\ metrics = NotCalled
    /\ prev = NotCalled

NextScores ==
    \/ \E u \in {NULL, "alice"} : ComputeScores(u)
    \/ \E i \in 1 .. MaxRows : Reorder(i)
    \/ Tick

SpecScores == InitScores /\ [][NextScores]_vars

\* a row that an earlier run left in tasks.db
StoredRow(id, who, task, series_id) ==
    NewRow(id, <<task, who, "boss", "High", "Not Started", isoformat(<<2024, 1, 1>>),
                 isoformat(<<2024, 1, 2>>), 50, "",
                 IF series_id = NULL_ID THEN "None" ELSE "Weekly",
                 IF series_id = NULL_ID THEN NULL_DATE ELSE isoformat(<<2024, 1, 22>>),
                 series_id, "Work", NULL, 1>>)

StoredRowKinds ==
    <<[who |-> "alice", task |-> "report", series_id |-> uuid4(1)],
      [who |-> "alice", task |-> "report", series_id |-> uuid4(1)],
      [who |-> "alice", task |-> "review", series_id |-> NULL_ID],
      [who |-> "bob", task |-> "audit", series_id |-> uuid4(2)],
      [who |-> "bob", task |-> "backup", series_id |-> NULL_ID]>>

\* the tables of up to MaxRows + 1 different stored rows, ids ascending
StoredTables ==
    {[i \in 1 .. Len(ks) |->
        StoredRow(i, StoredRowKinds[ks[i]].who, StoredRowKinds[ks[i]].task,
                  StoredRowKinds[ks[i]].series_id)] :
     ks \in {k \in UNION {[1 .. n -> 1 .. Len(StoredRowKinds)] : n \in 1 .. (MaxRows + 1)} :
                \A i \in 1 .. (Len(k) - 1) : k[i] < k[i + 1]}}

\* the accounts an earlier run left in tasks.db
StoredUsers ==
    InsertUser(InsertUser(BootstrapUsers(<<>>), "alice", make_hash("pw1"), "user").users,
               "bob", make_hash("pw2"), "user").users

\* the application started on a database that already holds accounts and tasks
InitStored ==
    /\ users = StoredUsers
    /\ session = LoggedOut
    /\ committed \in StoredTables
    /\ tasks = committed
    /\ uuids = 0
    /\ msg = ""
    /\ last = [op |-> "start"]
    /\ now = Clock0
    /\ metrics = NotCalled
    /\ prev = NotCalled

\* the forms submitted from the dashboard
DashboardForms ==
    {f \in Forms : f.tags = <<>> /\ f.status = "Not Started"
                      /\ f.recurrence_until # <<2023, 12, 31>>}

StoredLogins == {<<"alice", "pw1">>, <<"bob", "pw2">>, <<"admin", "admin123">>}

\* the sessions of the users on their dashboards
NextDashboard ==
    \/ \E l \in StoredLogins : Login(l[1], l[2])
    \/ Logout
    \/ \E f \in DashboardForms : SubmitTask(f)
    \/ ShowUserDashboard
    \/ \E i \in 1 .. (MaxRows + 1) : DeleteTask(i)

SpecDashboard == InitStored /\ [][NextDashboard]_vars

\* the sessions of the admin
NextAdmin ==
    \/ Login("admin", "admin123")
    \/ Logout
    \/ \E i \in 1 .. (MaxRows + 1), note \in AdminNotes, whole_series \in BOOLEAN :
          UpdateAdminNote(i, note, whole_series)

SpecAdmin == InitStored /\ [][NextAdmin]_vars

(***************************************************************************)
(* Properties of the recurrence expander and of the add-task form.         *)
(***************************************************************************)
StartDates(db) == [i \in 1 .. Len(db) |-> db[i].start_date]

\* the start dates of the successive steps of the rule after d, up to until
RECURSIVE StepsUpTo(_, _, _)
StepsUpTo(rule, d, until) ==
    LET n == IF rule = "Daily" THEN fromordinal(toordinal(d) + 1)
             ELSE IF rule = "Weekly" THEN fromordinal(toordinal(d) + 7)
             ELSE date_of(DateOffset_months(to_datetime(d), 1))
    IN  IF toordinal(n) > toordinal(until) THEN <<>>
        ELSE <<n>> \o StepsUpTo(rule, n, until)

ExpectedStarts(a) ==
    IF a.recurrence = "None" \/ a.recurrence_until = NULL_DATE THEN <<>>
    ELSE StepsUpTo(a.recurrence, a.start_date, a.recurrence_until)

Rules == {"Daily", "Weekly", "Monthly"}

\* C1: after a call of the expander with a rule in {None, Daily, Weekly, Monthly},
\* the rows it has persisted are exactly the successive steps after the seed's
\* start date that are not after the cutoff, in increasing order, and none when
\* the cutoff is before the start, absent, or the rule is None (Weekly from
\* 2024-01-01 until 2024-01-22: the rows of 01-08, 01-15 and 01-22).
C1_ExpanderEmitsStepsUpToCutoff ==
    (last.op = "expander" /\ last.args.recurrence \in Rules \cup {"None"})
        => StartDates(committed) = ExpectedStarts(last.args)

\* C3: after a call of the expander whose first step is not after the cutoff,
\* the rows it generated exist and each has status "Not Started", progress 0,
\* the seed's other fields, and the advanced start and end dates.
C3_GeneratedRowsResetStatusAndProgress ==
    (last.op = "expander" /\ ExpectedStarts(last.args) # <<>>)
        => LET a == last.args
           IN  /\ committed # <<>>
               /\ \A i \in 1 .. Len(committed) :
                    LET r == committed[i]
                    IN  /\ r.status = "Not Started" /\ r.progress = 0
                        /\ r.task = a.task /\ r.assigned_to = a.assigned_to
                        /\ r.given_by = a.given_by /\ r.priority = a.priority
                        /\ r.comments = a.comments /\ r.recurrence = a.recurrence
                        /\ r.recurrence_until = a.recurrence_until
                        /\ r.series_id = a.series_id /\ r.category = a.category
                        /\ r.tags = a.tags /\ r.estimated_hours = a.estimated_hours
                        /\ r.start_date = ExpectedStarts(a)[i]
                        /\ toordinal(r.end_date) >= toordinal(r.start_date)

IsSeedOf(r, f, username) ==
    /\ r.task = f.task /\ r.assigned_to = username /\ r.given_by = f.given_by
    /\ r.priority = f.priority /\ r.status = f.status
    /\ r.start_date = f.start_date /\ r.end_date = f.end_date
    /\ r.progress = f.progress /\ r.comments = f.comments
    /\ r.recurrence = f.recurrence /\ r.category = f.category
    /\ r.estimated_hours = f.estimated_hours

\* C2: a submission of the add-task form with a non-empty title appends exactly
\* one seed row to the persisted rows, assigned to the acting user and carrying
\* the submitted values, after the unchanged earlier rows; with a recurrence the
\* rows after the seed are the expander's follow-up rows.
C2_SubmitPersistsSeedRow ==
    [][(last'.op = "add_task" /\ last'.form.task # "")
        => LET n == Len(committed)
               f == last'.form
           IN  /\ Len(committed') >= n + 1
               /\ SubSeq(committed', 1, n) = committed
               /\ IsSeedOf(committed'[n + 1], f, session.username)
               /\ Len(committed') = n + 1 + Len(ExpectedStarts(f))]_vars

\* C4: once a task has been created, its row is stored with the series id of
\* its series: a null series_id for a task without recurrence, and for a
\* recurring task the id drawn for it, which every row of that series and no
\* row of another user's or another series carries.
C4_SeriesIdSharedWithinSeries ==
    (last.op = "add_task" /\ last.form.task # "")
        => LET f == last.form
               sid == IF f.recurrence = "None" THEN NULL_ID ELSE uuid4(uuids)
           IN  /\ \E i \in 1 .. Len(committed) :
                    /\ IsSeedOf(committed[i], f, session.username)
                    /\ committed[i].series_id = sid
               /\ \A i \in 1 .. Len(committed) :
                    /\ committed[i].recurrence = "None" => committed[i].series_id = NULL_ID
                    /\ committed[i].series_id = sid
                        => (committed[i].task = f.task
                            /\ committed[i].recurrence = f.recurrence)

(***************************************************************************)
(* Properties of compute_scores.                                           *)
(***************************************************************************)
\* the rows of the table a call for username selects
Selected(username) ==
    {i \in 1 .. Len(committed) :
        username \in {NULL, ""} \/ committed[i].assigned_to = username}

RECURSIVE ProgressOver(_)
ProgressOver(S) ==
    IF S = {} THEN 0
    ELSE LET i == CHOOSE j \in S : TRUE
         IN  committed[i].progress + ProgressOver(S \ {i})

CompletedOf(S) == {i \in S : committed[i].status = "Completed"}

OnTimeOf(S) ==
    {i \in CompletedOf(S) : ~date_gt(committed[i].start_date, committed[i].end_date)}

\* 100 * (0.4*completion + 0.25*on-time + 0.2*avg progress - 0.15*overdue) * total
RawTimesTotal(S, overdue) ==
    4000 * Cardinality(CompletedOf(S)) + 2500 * Cardinality(OnTimeOf(S))
        + 20 * ProgressOver(S) - 1500 * overdue

\* s hundredths is x/t rounded to 2 decimals
IsRounded(s, x, t) ==
    \/ 2 * Abs(s * t - x) < t
    \/ 2 * Abs(s * t - x) = t /\ s % 2 = 0

\* q = <<num, den>> is the percentage 100 * n / t
IsPercent(q, n, t) == q[1] * t = 100 * n * q[2]

\* C5: on a non-empty task set the Efficiency Score is
\* max(0, round(0.4*completion_rate + 0.25*ontime_rate + 0.2*avg_progress
\* - 0.15*overdue_rate, 2)) with completion_rate = completed/total*100,
\* ontime_rate = on_time/total*100 (on_time: the completed tasks with
\* end_date >= start_date), overdue_rate = overdue/total*100 and avg_progress
\* the mean progress; 10 tasks, 6 completed, 5 of them on time, 2 overdue,
\* mean progress 55 give 60, 50, 20 and the score 44.5.
C5_EfficiencyScoreFormula ==
    (metrics.called /\ Selected(metrics.username) # {})
        => LET S == Selected(metrics.username)
               t == Cardinality(S)
               m == metrics.result
               x == RawTimesTotal(S, m.overdue)
           IN  /\ ~m.none
               /\ m.total = t
               /\ m.completed = Cardinality(CompletedOf(S))
               /\ IsPercent(m.completion_rate, Cardinality(CompletedOf(S)), t)
               /\ IsPercent(m.ontime_rate, Cardinality(OnTimeOf(S)), t)
               /\ IsPercent(m.overdue_rate, m.overdue, t)
               /\ m.avg_progress[1] * t = ProgressOver(S) * m.avg_progress[2]
               /\ IF 2 * x <= t THEN m.score = 0 ELSE IsRounded(m.score, x, t)
               /\ (/\ t = 10 /\ Cardinality(CompletedOf(S)) = 6
                   /\ Cardinality(OnTimeOf(S)) = 5 /\ m.overdue = 2
                   /\ ProgressOver(S) = 550)
                    => (/\ m.score = 4450
                        /\ m.completion_rate[1] = 60 * m.completion_rate[2]
                        /\ m.ontime_rate[1] = 50 * m.ontime_rate[2]
                        /\ m.overdue_rate[1] = 20 * m.overdue_rate[2])

C5_Scenario2Scored ==
    /\ metrics.called /\ ~metrics.result.none
    /\ metrics.result.total = 10 /\ metrics.result.completed = 6
    /\ metrics.result.overdue = 2 /\ metrics.result.score = 4450

\* C6: compute_scores returns no metrics exactly when the selected task set is
\* empty, and on a non-empty set its Efficiency Score is >= 0, also when the
\* weighted sum is negative.
C6_NoneWhenEmptyElseNonNegative ==
    metrics.called
        => /\ metrics.result.none <=> Selected(metrics.username) = {}
           /\ ~metrics.result.none => metrics.result.score >= 0

C6_NegativeRawScoreFloored ==
    /\ metrics.called /\ ~metrics.result.none
    /\ RawTimesTotal(Selected(metrics.username), metrics.result.overdue) < 0
    /\ metrics.result.score = 0

\* C7: the overdue count is the number of selected tasks that are not Completed
\* and whose end_date is strictly before today's date; a task due today is not
\* overdue.
C7_OverdueIsEndDateBeforeToday ==
    (metrics.called /\ ~metrics.result.none)
        => metrics.result.overdue =
            Cardinality({i \in Selected(metrics.username) :
                            /\ committed[i].status # "Completed"
                            /\ date_gt(date_of(metrics.now), committed[i].end_date)})

\* C8 as stated: two calls for the same user on the same task set, in whatever
\* row order and at whatever times, return identical metrics.
C8_SameTaskSetSameMetrics ==
    (metrics.called /\ prev.called /\ metrics.username = prev.username)
        => metrics.result = prev.result

\* C8 amended: two calls for the same user on the same task set at the same
\* current time return identical metrics, in whatever row order.
C8_SameTaskSetAndTimeSameMetrics ==
    (/\ metrics.called /\ prev.called /\ metrics.username = prev.username
     /\ metrics.now = prev.now)
        => metrics.result = prev.result

C8_RecomputedAfterReorder ==
    /\ metrics.called /\ prev.called /\ metrics.username = prev.username
    /\ metrics.now = prev.now
    /\ last.op = "compute_scores" /\ last.after = "reorder"
    /\ ~metrics.result.none /\ metrics.result.total >= 2
    /\ metrics.result.completed >= 1 /\ metrics.result.overdue >= 1

(***************************************************************************)
(* Properties of the auth page.                                            *)
(***************************************************************************)
UsernamesUnique ==
    \A i, j \in 1 .. Len(users) : users[i].username = users[j].username => i = j

\* C9: a signup with a username that is already in the user table leaves the
\* table as it was and, the password being given, reports "Username already
\* exists."; usernames stay unique.
C9_DuplicateSignupRejected ==
    /\ []UsernamesUnique
    /\ [][(last'.op = "signup" /\ SelectUser(users, last'.username) # <<>>)
            => /\ users' = users
               /\ last'.password # "" => msg' = "Username already exists."]_vars

C9_DuplicateSignupSeen ==
    /\ last.op = "signup" /\ msg = "Username already exists."
    /\ \E i \in 1 .. Len(users) :
        /\ users[i].username = last.username
        /\ users[i].password # make_hash(last.password)
        /\ users[i].role # last.role

\* C10: a login succeeds exactly when the username is in the user table and
\* the hash of the password given equals the stored hash; then the session is
\* logged in with that username and the role stored for it; otherwise the
\* session stays logged out and "Invalid username or password." is shown,
\* whichever of the two was wrong.
C10_LoginIffCredentialsMatch ==
    [][(last'.op = "login")
        => LET match == {i \in 1 .. Len(users) :
                            /\ users[i].username = last'.username
                            /\ users[i].password = make_hash(last'.password)}
           IN  IF match # {}
               THEN /\ session'.logged_in
                    /\ session'.username = last'.username
                    /\ \A i \in match : session'.role = users[i].role
                    /\ msg' = "Logged in"
               ELSE /\ ~session'.logged_in
                    /\ session' = session
                    /\ msg' = "Invalid username or password."]_vars

C10_SignedUpAdminLoggedIn ==
    /\ last.op = "login" /\ session.logged_in
    /\ session.username = "alice" /\ session.role = "admin"


(***************************************************************************)
(* Properties of the user dashboard.                                       *)
(***************************************************************************)
\* the rows of db that are assigned to somebody else than username
OthersRows(db, username) == SelectSeq(db, LAMBDA r : r.assigned_to # username)

\* C11: the task operations of a session that is not an admin's are scoped
\* to its user A: a step of the session leaves the rows assigned to anybody
\* else as they were, every row it adds is assigned to A, the row it deletes
\* was assigned to A, and the metrics it computes are those of A's rows alone
C11_UserSessionScopedToOwnTasks ==
    [][(session.logged_in /\ session.role = "user") =>
        LET A == session.username
        IN  /\ OthersRows(committed', A) = OthersRows(committed, A)
            /\ OthersRows(tasks', A) = OthersRows(tasks, A)
            /\ \A j \in 1 .. Len(committed') :
                  (\A i \in 1 .. Len(committed) : committed[i].id # committed'[j].id)
                      => committed'[j].assigned_to = A
            /\ last'.op = "delete_task" =>
                  \E i \in 1 .. Len(committed) :
                      committed[i].id = last'.id /\ committed[i].assigned_to = A
            /\ last'.op = "compute_scores" =>
                  metrics'.result = compute_scores(read_tasks(committed, A), A, now)]_vars

\* alice has deleted a task of hers in a table that holds a task of bob
C11_OwnTaskDeletedBesideOthers ==
    /\ last.op = "delete_task"
    /\ session.logged_in /\ session.username = "alice"
    /\ \E i \in 1 .. Len(committed) : committed[i].assigned_to = "bob"


(***************************************************************************)
(* Properties of the admin's note.                                         *)
(***************************************************************************)
\* the row of db with this id
RowWithId(db, id) == db[CHOOSE j \in 1 .. Len(db) : db[j].id = id]

\* C12: an admin's note update changes admin_comments and nothing else: of
\* the one task when it is a single-row update, of exactly the rows that
\* share the task's series_id when it is series-wide; every other row, every
\* other field and the accounts stay as they were
C12_AdminNoteUpdateFrame ==
    [][(session.logged_in /\ session.role = "admin" /\ last'.op = "admin_note") =>
        LET u == last'
            sid == RowWithId(committed, u.id).series_id
            hit(r) == IF u.whole_series THEN r.series_id = sid ELSE r.id = u.id
        IN  /\ Len(committed') = Len(committed)
            /\ \A j \in 1 .. Len(committed) :
                  committed'[j] = IF hit(committed[j])
                                  THEN [committed[j] EXCEPT !.admin_comments = u.note]
                                  ELSE committed[j]
            /\ users' = users /\ session' = session]_vars

\* a series-wide note has been saved: it is on two rows of the series and
\* another row is without it
C12_SeriesNoteSaved ==
    /\ last.op = "admin_note" /\ last.whole_series
    /\ \E i, j \in 1 .. Len(committed) :
          /\ i # j
          /\ committed[i].series_id = committed[j].series_id
          /\ committed[i].admin_comments = last.note
          /\ committed[j].admin_comments = last.note
    /\ \E i \in 1 .. Len(committed) : committed[i].admin_comments # last.note


(***************************************************************************)
(* Properties of the expander's loop.                                      *)
(***************************************************************************)
\* C13: a row of the expander is committed on its own as soon as it is
\* inserted: the INSERT of a pass whose date the cutoff admits leaves exactly
\* one more committed row, the row of that pass, and no insert pending
C13_EachRowCommittedWhenInserted ==
    [][LoopAt("insert") =>
        /\ Len(committed') = Len(committed) + 1
        /\ committed'[Len(committed')].start_date = isoformat(date_of(last.next_start))
        /\ committed' = tasks']_vars

\* the date d advanced by k calendar months: the same day of the month when
\* the target month has it, else the month's last day
MonthsAfter(d, k) == date_of(DateOffset_months(to_datetime(d), k))

\* C14: after a Monthly call of the expander the k-th generated row, for each
\* step the cutoff admits, starts and ends k calendar months after the seed's
\* start and end, on the seed's day of the month whenever the target month
\* has that day (seed of the 31st: the row of a 31-day month is on its 31st)
C14_MonthlyKeepsSeedDay ==
    (last.op = "expander" /\ last.args.recurrence = "Monthly")
        => LET a == last.args
           IN  /\ Len(committed) = Len(ExpectedStarts(a))
               /\ \A k \in 1 .. Len(committed) :
                    /\ committed[k].start_date = isoformat(MonthsAfter(a.start_date, k))
                    /\ committed[k].end_date = isoformat(MonthsAfter(a.end_date, k))

\* the call has ended: it returned, or an exception left it
LoopEnded == LoopAt("returned") \/ LoopAt("raised")

\* C15: every call of the expander ends, whatever the rule, the seed and the
\* cutoff; each pass of a recognised rule moves next_start to a strictly later
\* date; an unrecognised rule leaves the loop in its first pass, and a cutoff
\* before the seed's start date ends the call with no row emitted
C15_ExpansionLoopTerminates ==
    /\ <>LoopEnded
    /\ [][(LoopAt("rule") /\ last'.pc = "cutoff") =>
            /\ last'.next_start > last.next_start
            /\ date_gt(date_of(last'.next_start), date_of(last.next_start))]_vars
    /\ [](LoopEnded =>
            /\ last.args.recurrence \notin Rules => (last.passes = 0 /\ tasks = <<>>)
            /\ (last.until # 0 /\ last.until < to_datetime(last.args.start_date))
                  => (last.passes <= 1 /\ tasks = <<>> /\ LoopAt("returned")))

\* a call of a recognised rule has returned after its candidate start date got
\* beyond the cutoff
C15_LoopLeftAtCutoff ==
    /\ LoopAt("returned")
    /\ last.args.recurrence \in Rules
    /\ last.passes >= 1
    /\ date_gt(date_of(last.next_start), date_of(last.until))

\* the days from a row's start date to its end date
DurationDays(start_date, end_date) == toordinal(end_date) - toordinal(start_date)

\* C16: after a call of the expander on a seed whose end date is not before
\* its start date, the rows of the steps the cutoff admits exist and each has
\* an end date not before its start date, Monthly clamping included; for
\* Daily and Weekly a row lasts exactly as many days as the seed
C16_GeneratedRowsEndNotBeforeStart ==
    (last.op = "expander" /\ last.args.recurrence \in Rules
        /\ DurationDays(last.args.start_date, last.args.end_date) >= 0)
        => LET a == last.args
           IN  /\ Len(committed) = Len(ExpectedStarts(a))
               /\ \A k \in 1 .. Len(committed) :
                    LET r == committed[k]
                    IN  /\ DurationDays(r.start_date, r.end_date) >= 0
                        /\ a.recurrence \in {"Daily", "Weekly"} =>
                              DurationDays(r.start_date, r.end_date)
                                  = DurationDays(a.start_date, a.end_date)


(***************************************************************************)
(* Bounds of the counts and of the Efficiency Score.                       *)
(***************************************************************************)
\* C17: on a non-empty selection with every progress in 0 .. 100 the counts
\* compute_scores works with satisfy on_time <= completed <= total and
\* overdue + completed <= total, and the Efficiency Score it returns is
\* between 0 and 85 (in hundredths: 0 .. 8500), so never 100
C17_ScoreBetween0And85 ==
    (metrics.called /\ ~metrics.result.none) =>
        LET df == select_tasks(committed, metrics.username)
            total == Len(df)
            completed == completed_count(df)
            on_time == on_time_count(df)
            overdue == overdue_count(df, metrics.now)
            m == metrics.result
        IN  (\A i \in 1 .. total : df[i].progress \in 0 .. 100) =>
                /\ total >= 1
                /\ on_time <= completed /\ completed <= total
                /\ overdue + completed <= total
                /\ m.total = total /\ m.completed = completed /\ m.overdue = overdue
                /\ m.ontime_rate[1] <= m.completion_rate[1]
                /\ m.overdue_rate[1] + m.completion_rate[1] <= 100 * total
                /\ m.score >= 0 /\ m.score <= 8500

\* the top score: every task completed, on time, at progress 100
C17_TopScoreReached ==
    /\ metrics.called /\ ~metrics.result.none
    /\ metrics.result.completed = metrics.result.total
    /\ metrics.result.score = 8500

====
